---- MODULE Spec2Model ----
(***************************************************************************)
(* Model of the UHID example (src/src/main.rs): a three button mouse with  *)
(* wheel emulated over the uhid character device.  main opens the device   *)
(* channel, writes a CREATE record, registers stdin and the channel with   *)
(* an edge-triggered poll, and then dispatches one readiness event at a    *)
(* time to keyboard (stdin) or handle_event (device channel).              *)
(*                                                                         *)
(* A uhid_event is modelled by its tag and the fields of the input/output  *)
(* payload the program reads or writes: [type, rtype, size, data], data    *)
(* being the first DataLen bytes of the payload buffer.  Bytes pending on  *)
(* stdin and records pending on the channel are counted; the byte or the   *)
(* record is chosen when it is read, which is when the program first       *)
(* observes it.                                                            *)
(***************************************************************************)
EXTENDS Integers, Sequences, FiniteSets, TLC

VARIABLES
    pc,            \* position of main: start, opened, created, wait, dispatch, exited
    exit,          \* why the process ended ("" while it runs)
    token,         \* token of the readiness event being dispatched (-1: none)
    device_state,  \* DeviceState owned by main
    presses,       \* per button key, number of presses read so far, modulo 2
    prev,          \* the control character handled last and the state before it
    stdinPending,  \* bytes typed and not yet read
    stdinReady,    \* an edge-triggered readiness event is queued for stdin
    devPending,    \* records sent by the kernel and not yet read
    devReady,      \* an edge-triggered readiness event is queued for the channel
    channel,       \* per record kind: write calls made and full writes, capped
    last           \* what the most recent create/keyboard/handle_event call did

vars == <<pc, exit, token, device_state, presses, prev, stdinPending,
          stdinReady, devPending, devReady, channel, last>>

----------------------------------------------------------------------------
(* Bounds of the model *)

MaxPending == 2    \* bytes or records that may wait unread on one source
MaxCount == 2      \* the per-kind write counters saturate here

----------------------------------------------------------------------------
(* Constants of the program *)

UHID_LEGACY_CREATE == 0
UHID_DESTROY == 1
UHID_START == 2
UHID_STOP == 3
UHID_OPEN == 4
UHID_CLOSE == 5
UHID_OUTPUT == 6
UHID_LEGACY_OUTPUT_EV == 7
UHID_LEGACY_INPUT == 8
UHID_GET_REPORT == 9
UHID_GET_REPORT_REPLY == 10
UHID_CREATE2 == 11
UHID_INPUT2 == 12
UHID_SET_REPORT == 13
UHID_SET_REPORT_REPLY == 14

UHID_FEATURE_REPORT == 0
UHID_OUTPUT_REPORT == 1

UHID_EVENT_SIZE == 4376    \* mem::size_of::<uhid_event>()
DataLen == 5               \* payload bytes the program touches

STDIN == 0
UHID_DEVICE == 1

\* the control characters, as the bytes read from stdin
Key1 == 49
Key2 == 50
Key3 == 51
KeyA == 97
KeyD == 100
KeyW == 119
KeyS == 115
KeyR == 114
KeyF == 102
KeyQ == 113
KeyOther == 120

----------------------------------------------------------------------------
(* Inputs *)

Chars == {Key1, Key2, Key3, KeyA, KeyD, KeyW, KeyS, KeyR, KeyF, KeyQ, KeyOther}

\* results of one write(2) call: the full record, a short count, an error
WriteRets == {UHID_EVENT_SIZE, 4, -1}

ZeroData == [i \in 1..DataLen |-> 0]

\* mem::zeroed() uhid_event
ZeroEvent == [type |-> 0, rtype |-> 0, size |-> 0, data |-> ZeroData]

\* a tag outside the known set
UnknownTags == {15}

\* records the kernel may send: every tag with a zero payload, and OUTPUT
\* records that vary the report type, the size and the report id
PlainRecords == {[ZeroEvent EXCEPT !.type = t] :
                    t \in ((0..14) \ {UHID_OUTPUT}) \cup UnknownTags}

OutputRecords == {[type |-> UHID_OUTPUT, rtype |-> rt, size |-> sz,
                   data |-> [ZeroData EXCEPT ![1] = id, ![2] = 5]] :
                    rt \in {UHID_OUTPUT_REPORT, UHID_FEATURE_REPORT},
                    sz \in {2, 3}, id \in {2, 1}}

Records == PlainRecords \cup OutputRecords

----------------------------------------------------------------------------
(* DeviceState and InputEvent *)

DefaultState == [btn1_down |-> FALSE, btn2_down |-> FALSE, btn3_down |-> FALSE]

toggle_btn1_stuck(state) == [state EXCEPT !.btn1_down = TRUE]

toggle_btn1(state) == [state EXCEPT !.btn1_down = ~state.btn1_down]

toggle_btn2(state) == [state EXCEPT !.btn2_down = ~state.btn2_down]

toggle_btn3(state) == [state EXCEPT !.btn3_down = ~state.btn3_down]

from_state_stale_wheel(state) ==
    [btn1_down |-> state.btn1_down,
     btn2_down |-> state.btn2_down,
     btn3_down |-> state.btn2_down,
     abs_hor |-> 0, abs_ver |-> 0, wheel |-> 1]

\* btn3_down is read from state.btn2_down, as the source does
from_state(state) ==
    [btn1_down |-> state.btn1_down,
     btn2_down |-> state.btn2_down,
     btn3_down |-> state.btn2_down,
     abs_hor |-> 0, abs_ver |-> 0, wheel |-> 0]

\* `x as u8` of an i8
AsU8(x) == x % 256

\* a byte read back as an i8
AsI8(b) == IF b >= 128 THEN b - 256 ELSE b

Bit(b, n) == (b \div n) % 2 = 1

----------------------------------------------------------------------------
(* Writing records *)

Min(a, b) == IF a < b THEN a ELSE b

uhid_write_accepts_short(ret) ==
    [calls |-> 1, ret |-> ret, ok |-> ret >= 0]

\* one file.write call; Ok only when it transferred the whole record
uhid_write(ret) ==
    [calls |-> 1, ret |-> ret,
     ok |-> IF ret >= 0
            THEN (IF ret # UHID_EVENT_SIZE THEN FALSE ELSE TRUE)
            ELSE FALSE]

\* the record create builds (the name, descriptor and ids of the create
\* payload are not read back by the program and are left out)
create_event == [ZeroEvent EXCEPT !.type = UHID_LEGACY_CREATE]

\* the record destroy builds
destroy_event == [ZeroEvent EXCEPT !.type = UHID_DESTROY]

send_event_wrong_bit(input) ==
    [type |-> UHID_LEGACY_INPUT,
     rtype |-> 0,
     size |-> 5,
     data |-> [ZeroData EXCEPT
                 ![1] = 1,
                 ![2] = (IF input.btn1_down THEN 1 ELSE 0)
                      + (IF input.btn2_down THEN 2 ELSE 0)
                      + (IF input.btn3_down THEN 8 ELSE 0),
                 ![3] = AsU8(input.abs_hor),
                 ![4] = AsU8(input.abs_ver),
                 ![5] = AsU8(input.wheel)]]

\* the record send_event builds from an InputEvent
send_event(input) ==
    [type |-> UHID_LEGACY_INPUT,
     rtype |-> 0,
     size |-> 5,
     data |-> [ZeroData EXCEPT
                 ![1] = 1,
                 ![2] = (IF input.btn1_down THEN 1 ELSE 0)
                      + (IF input.btn2_down THEN 2 ELSE 0)
                      + (IF input.btn3_down THEN 4 ELSE 0),
                 ![3] = AsU8(input.abs_hor),
                 ![4] = AsU8(input.abs_ver),
                 ![5] = AsU8(input.wheel)]]

\* the channel after one write call of a record with tag `tag`
Written(tag, w) ==
    [channel EXCEPT ![tag] =
        [calls |-> Min(@.calls + w.calls, MaxCount),
         full |-> IF w.ok THEN Min(@.full + 1, MaxCount) ELSE @.full]]

----------------------------------------------------------------------------
(* Reading records *)

Line(msg, arg) == [msg |-> msg, arg |-> arg]

from_u32_forgets_last(value) ==
    IF value = UHID_LEGACY_CREATE THEN "__UHID_LEGACY_CREATE"
    ELSE IF value = UHID_DESTROY THEN "UHID_DESTROY"
    ELSE IF value = UHID_START THEN "UHID_START"
    ELSE IF value = UHID_STOP THEN "UHID_STOP"
    ELSE IF value = UHID_OPEN THEN "UHID_OPEN"
    ELSE IF value = UHID_CLOSE THEN "UHID_CLOSE"
    ELSE IF value = UHID_OUTPUT THEN "UHID_OUTPUT"
    ELSE IF value = UHID_LEGACY_OUTPUT_EV THEN "__UHID_LEGACY_OUTPUT_EV"
    ELSE IF value = UHID_LEGACY_INPUT THEN "__UHID_LEGACY_INPUT"
    ELSE IF value = UHID_GET_REPORT THEN "UHID_GET_REPORT"
    ELSE IF value = UHID_GET_REPORT_REPLY THEN "UHID_GET_REPORT_REPLY"
    ELSE IF value = UHID_CREATE2 THEN "UHID_CREATE2"
    ELSE IF value = UHID_INPUT2 THEN "UHID_INPUT2"
    ELSE IF value = UHID_SET_REPORT THEN "UHID_SET_REPORT"
    ELSE "None"

\* the variant for a tag, "None" when the tag matches no variant
from_u32_to_maybe_uhid_event_type(value) ==
    IF value = UHID_LEGACY_CREATE THEN "__UHID_LEGACY_CREATE"
    ELSE IF value = UHID_DESTROY THEN "UHID_DESTROY"
    ELSE IF value = UHID_START THEN "UHID_START"
    ELSE IF value = UHID_STOP THEN "UHID_STOP"
    ELSE IF value = UHID_OPEN THEN "UHID_OPEN"
    ELSE IF value = UHID_CLOSE THEN "UHID_CLOSE"
    ELSE IF value = UHID_OUTPUT THEN "UHID_OUTPUT"
    ELSE IF value = UHID_LEGACY_OUTPUT_EV THEN "__UHID_LEGACY_OUTPUT_EV"
    ELSE IF value = UHID_LEGACY_INPUT THEN "__UHID_LEGACY_INPUT"
    ELSE IF value = UHID_GET_REPORT THEN "UHID_GET_REPORT"
    ELSE IF value = UHID_GET_REPORT_REPLY THEN "UHID_GET_REPORT_REPLY"
    ELSE IF value = UHID_CREATE2 THEN "UHID_CREATE2"
    ELSE IF value = UHID_INPUT2 THEN "UHID_INPUT2"
    ELSE IF value = UHID_SET_REPORT THEN "UHID_SET_REPORT"
    ELSE IF value = UHID_SET_REPORT_REPLY THEN "UHID_SET_REPORT_REPLY"
    ELSE "None"

handle_output_any_size(ev) ==
    IF ev.rtype # UHID_OUTPUT_REPORT THEN <<>>
    ELSE IF ev.data[1] # 2 THEN <<>>
    ELSE <<Line("LED output report received with flags", ev.data[2])>>

\* the lines handle_output prints for an OUTPUT record
handle_output(ev) ==
    IF ev.rtype # UHID_OUTPUT_REPORT THEN <<>>
    ELSE IF ev.size # 2 THEN <<>>
    ELSE IF ev.data[1] # 2 THEN <<>>
    ELSE <<Line("LED output report received with flags", ev.data[2])>>

\* the lines the match of handle_event prints for a record of variant `kind`
dispatch_event(kind, ev) ==
    CASE kind = "UHID_START" -> <<Line("UHID_START from uhid-dev", -1)>>
      [] kind = "UHID_STOP" -> <<Line("UHID_STOP from uhid-dev", -1)>>
      [] kind = "UHID_OPEN" -> <<Line("UHID_OPEN from uhid-dev", -1)>>
      [] kind = "UHID_CLOSE" -> <<Line("UHID_CLOSE from uhid-dev", -1)>>
      [] kind = "UHID_OUTPUT" ->
            <<Line("UHID_OUTPUT from uhid-dev", -1)>> \o handle_output(ev)
      [] kind = "__UHID_LEGACY_OUTPUT_EV" ->
            <<Line("UHID_OUTPUT_EV from uhid-dev", -1)>>
      [] OTHER -> <<Line("Invalid event from uhid-dev", ev.type)>>

read_exact_drains(pending) == 0

\* records left unread after the one file.read_exact of handle_event
read_exact(pending) == pending - 1

\* bytes left unread after the one one-byte read of keyboard
stdin_read(pending) == pending - 1

----------------------------------------------------------------------------
(* The match of keyboard on the character read *)

WithHor(input, v) == [input EXCEPT !.abs_hor = v]

WithVer_sets_hor(input, v) == [input EXCEPT !.abs_hor = v]

WithVer(input, v) == [input EXCEPT !.abs_ver = v]

WithWheel(input, v) == [input EXCEPT !.wheel = v]

Send(state, input) == [state |-> state, what |-> "send", input |-> input]

keyboard_match_invalid_sends(c, state) ==
    CASE c = Key1 -> Send(toggle_btn1(state), from_state(toggle_btn1(state)))
      [] c = Key2 -> Send(toggle_btn2(state), from_state(toggle_btn2(state)))
      [] c = Key3 -> Send(toggle_btn3(state), from_state(toggle_btn3(state)))
      [] c = KeyA -> Send(state, WithHor(from_state(state), -20))
      [] c = KeyD -> Send(state, WithHor(from_state(state), 20))
      [] c = KeyW -> Send(state, WithVer(from_state(state), -20))
      [] c = KeyS -> Send(state, WithVer(from_state(state), 20))
      [] c = KeyR -> Send(state, WithWheel(from_state(state), 1))
      [] c = KeyF -> Send(state, WithWheel(from_state(state), -1))
      [] c = KeyQ -> [state |-> state, what |-> "quit", input |-> from_state(state)]
      [] OTHER -> Send(state, from_state(state))

keyboard_match_motion_toggles(c, state) ==
    CASE c = Key1 -> Send(toggle_btn1(state), from_state(toggle_btn1(state)))
      [] c = Key2 -> Send(toggle_btn2(state), from_state(toggle_btn2(state)))
      [] c = Key3 -> Send(toggle_btn3(state), from_state(toggle_btn3(state)))
      [] c = KeyA -> Send(toggle_btn1(state), WithHor(from_state(state), -20))
      [] c = KeyD -> Send(state, WithHor(from_state(state), 20))
      [] c = KeyW -> Send(state, WithVer(from_state(state), -20))
      [] c = KeyS -> Send(state, WithVer(from_state(state), 20))
      [] c = KeyR -> Send(state, WithWheel(from_state(state), 1))
      [] c = KeyF -> Send(state, WithWheel(from_state(state), -1))
      [] c = KeyQ -> [state |-> state, what |-> "quit", input |-> from_state(state)]
      [] OTHER -> [state |-> state, what |-> "invalid", input |-> from_state(state)]

\* the new state, and the InputEvent to send, "quit" or "invalid"
keyboard_match(c, state) ==
    CASE c = Key1 -> Send(toggle_btn1(state), from_state(toggle_btn1(state)))
      [] c = Key2 -> Send(toggle_btn2(state), from_state(toggle_btn2(state)))
      [] c = Key3 -> Send(toggle_btn3(state), from_state(toggle_btn3(state)))
      [] c = KeyA -> Send(state, WithHor(from_state(state), -20))
      [] c = KeyD -> Send(state, WithHor(from_state(state), 20))
      [] c = KeyW -> Send(state, WithVer(from_state(state), -20))
      [] c = KeyS -> Send(state, WithVer(from_state(state), 20))
      [] c = KeyR -> Send(state, WithWheel(from_state(state), 1))
      [] c = KeyF -> Send(state, WithWheel(from_state(state), -1))
      [] c = KeyQ -> [state |-> state, what |-> "quit", input |-> from_state(state)]
      [] OTHER -> [state |-> state, what |-> "invalid", input |-> from_state(state)]

----------------------------------------------------------------------------
(* State *)

NoWrite == [calls |-> 0, ret |-> 0, ok |-> FALSE]

\* `last` when no call has been made since the loop last waited; `ended` is
\* how the call came back to main: "Ok", "Err", or "panic" when the process
\* ended inside the call
NoOp == [op |-> "none", read |-> FALSE, ch |-> 0, prevCh |-> 0,
         pre |-> DefaultState,
         prePrev |-> DefaultState, ev |-> ZeroEvent, w |-> NoWrite,
         log |-> <<>>, done |-> FALSE, ended |-> ""]

WrittenKinds == {UHID_LEGACY_CREATE, UHID_LEGACY_INPUT, UHID_DESTROY}

ButtonKeys == <<Key1, Key2, Key3>>

Init ==
    /\ pc = "start"
    /\ exit = ""
    /\ token = -1
    /\ device_state = DefaultState
    /\ presses = [n \in 1..3 |-> 0]
    /\ prev = [ch |-> 0, state |-> DefaultState]
    /\ stdinPending = 0
    /\ stdinReady = FALSE
    /\ devPending = 0
    /\ devReady = FALSE
    /\ channel = [k \in WrittenKinds |-> [calls |-> 0, full |-> 0]]
    /\ last = NoOp

Panic(why) ==
    /\ pc' = "exited"
    /\ exit' = why
    /\ token' = -1

----------------------------------------------------------------------------
(* The operator and the kernel *)

\* a byte arrives on stdin
key_typed ==
    /\ pc # "exited"
    /\ stdinPending < MaxPending
    /\ stdinPending' = stdinPending + 1
    /\ stdinReady' = TRUE
    /\ UNCHANGED <<pc, exit, token, device_state, presses, prev, devPending,
                   devReady, channel, last>>

\* the kernel queues a record for the created device
kernel_sends ==
    /\ pc \in {"created", "wait", "dispatch"}
    /\ devPending < MaxPending
    /\ devPending' = devPending + 1
    /\ devReady' = TRUE
    /\ UNCHANGED <<pc, exit, token, device_state, presses, prev, stdinPending,
                   stdinReady, channel, last>>

----------------------------------------------------------------------------
(* main *)

\* -h or --help: print the usage and return
usage ==
    /\ pc = "start"
    /\ Panic("usage")
    /\ UNCHANGED <<device_state, presses, prev, stdinPending, stdinReady,
                   devPending, devReady, channel, last>>

\* fcntl::open(...).unwrap()
open ==
    /\ pc = "start"
    /\ \/ /\ pc' = "opened"
          /\ UNCHANGED <<exit, token>>
       \/ Panic("open_failed")
    /\ UNCHANGED <<device_state, presses, prev, stdinPending, stdinReady,
                   devPending, devReady, channel, last>>

create_unchecked ==
    /\ pc = "opened"
    /\ \E ret \in WriteRets :
         LET w == uhid_write(ret) IN
           /\ channel' = Written(UHID_LEGACY_CREATE, w)
           /\ last' = [NoOp EXCEPT !.op = "create", !.ev = create_event,
                                   !.w = w, !.done = w.ok,
                                   !.ended = IF w.ok THEN "Ok" ELSE "Err"]
           /\ pc' = "created"
           /\ UNCHANGED <<exit, token>>
    /\ UNCHANGED <<device_state, presses, prev, stdinPending, stdinReady,
                   devPending, devReady>>

\* create(&mut file).unwrap()
create ==
    /\ pc = "opened"
    /\ \E ret \in WriteRets :
         LET w == uhid_write(ret) IN
           /\ channel' = Written(UHID_LEGACY_CREATE, w)
           /\ last' = [NoOp EXCEPT !.op = "create", !.ev = create_event,
                                   !.w = w, !.done = w.ok,
                                   !.ended = IF w.ok THEN "Ok" ELSE "Err"]
           /\ IF w.ok
              THEN pc' = "created" /\ UNCHANGED <<exit, token>>
              ELSE Panic("create_failed")
    /\ UNCHANGED <<device_state, presses, prev, stdinPending, stdinReady,
                   devPending, devReady>>

\* Poll::new().unwrap() and the two poll.register(...).unwrap()
register ==
    /\ pc = "created"
    /\ \/ /\ pc' = "wait"
          /\ UNCHANGED <<exit, token>>
       \/ Panic("poll_setup_failed")
    /\ UNCHANGED <<device_state, presses, prev, stdinPending, stdinReady,
                   devPending, devReady, channel, last>>

\* poll.poll(&mut events, None)...unwrap() with room for one event: it
\* returns one queued readiness event, consuming it, or fails
poll ==
    /\ pc = "wait"
    /\ \/ /\ stdinReady
          /\ stdinReady' = FALSE
          /\ token' = STDIN
          /\ pc' = "dispatch"
          /\ last' = NoOp
          /\ UNCHANGED <<exit, devReady>>
       \/ /\ devReady
          /\ devReady' = FALSE
          /\ token' = UHID_DEVICE
          /\ pc' = "dispatch"
          /\ last' = NoOp
          /\ UNCHANGED <<exit, stdinReady>>
       \/ /\ Panic("poll_failed")
          /\ last' = NoOp
          /\ UNCHANGED <<stdinReady, devReady>>
    /\ UNCHANGED <<device_state, presses, prev, stdinPending, devPending,
                   channel>>

match_token_ignored(t) ==
    IF t \in {STDIN, UHID_DEVICE} THEN "keyboard" ELSE "unreachable"

\* the handler the match on event.token() in main calls
match_token(t) ==
    IF t = STDIN THEN "keyboard"
    ELSE IF t = UHID_DEVICE THEN "handle_event"
    ELSE "unreachable"

Flip(c) ==
    [n \in 1..3 |-> IF ButtonKeys[n] = c THEN (presses[n] + 1) % 2
                    ELSE presses[n]]

\* keyboard(&mut file, &mut device_state).unwrap()
keyboard ==
    /\ pc = "dispatch"
    /\ match_token(token) = "keyboard"
    /\ \/ /\ Panic("stdin_read_failed")
          /\ last' = [NoOp EXCEPT !.op = "keyboard", !.ended = "Err"]
          /\ UNCHANGED <<device_state, presses, prev, stdinPending, channel>>
       \/ /\ stdinPending > 0
          /\ stdinPending' = stdin_read(stdinPending)
          /\ \E c \in Chars :
               LET m == keyboard_match(c, device_state)
                   op == [NoOp EXCEPT !.op = "keyboard", !.read = TRUE,
                                      !.ch = c,
                                      !.prevCh = prev.ch,
                                      !.pre = device_state,
                                      !.prePrev = prev.state]
               IN
                 /\ device_state' = m.state
                 /\ presses' = Flip(c)
                 /\ prev' = [ch |-> c, state |-> device_state]
                 /\ CASE m.what = "quit" ->
                           /\ Panic("quit")
                           /\ last' = [op EXCEPT !.ended = "Err"]
                           /\ UNCHANGED channel
                      [] m.what = "invalid" ->
                           /\ last' = [op EXCEPT
                                         !.log = <<Line("Invalid input", c)>>,
                                         !.done = TRUE, !.ended = "Ok"]
                           /\ pc' = "wait"
                           /\ token' = -1
                           /\ UNCHANGED <<exit, channel>>
                      [] OTHER ->
                           \E ret \in WriteRets :
                             LET w == uhid_write(ret) IN
                               /\ channel' = Written(UHID_LEGACY_INPUT, w)
                               /\ last' = [op EXCEPT
                                             !.ev = send_event(m.input),
                                             !.w = w, !.done = w.ok,
                                             !.ended = IF w.ok THEN "Ok"
                                                       ELSE "Err"]
                               /\ IF w.ok
                                  THEN /\ pc' = "wait"
                                       /\ token' = -1
                                       /\ UNCHANGED exit
                                  ELSE Panic("write_failed")
    /\ UNCHANGED <<stdinReady, devPending, devReady>>

\* handle_event(&mut file).unwrap()
handle_event ==
    /\ pc = "dispatch"
    /\ match_token(token) = "handle_event"
    /\ \/ /\ Panic("read_failed")
          /\ last' = [NoOp EXCEPT !.op = "handle_event", !.ended = "panic"]
          /\ UNCHANGED devPending
       \/ /\ devPending > 0
          /\ devPending' = read_exact(devPending)
          /\ \E ev \in Records :
               LET kind == from_u32_to_maybe_uhid_event_type(ev.type)
                   op == [NoOp EXCEPT !.op = "handle_event", !.read = TRUE,
                                      !.ev = ev]
               IN
                 IF kind = "None"
                 THEN /\ Panic("unknown_kind")
                      /\ last' = [op EXCEPT !.ended = "panic"]
                 ELSE /\ last' = [op EXCEPT !.log = dispatch_event(kind, ev),
                                            !.done = TRUE, !.ended = "Ok"]
                      /\ pc' = "wait"
                      /\ token' = -1
                      /\ UNCHANGED exit
    /\ UNCHANGED <<device_state, presses, prev, stdinPending, stdinReady,
                   devReady, channel>>

Next ==
    \/ key_typed
    \/ kernel_sends
    \/ usage
    \/ open
    \/ create
    \/ register
    \/ poll
    \/ keyboard
    \/ handle_event

Spec == Init /\ [][Next]_vars

----------------------------------------------------------------------------
(* Vocabulary of the properties *)

KnownTags == 0..14

MotionKeys == {KeyA, KeyD, KeyW, KeyS, KeyR, KeyF}

ToggleKeys == {Key1, Key2, Key3}

Running == pc \in {"created", "wait", "dispatch"}

\* the most recent call was keyboard and it wrote an INPUT record
WroteInput == last.op = "keyboard" /\ last.read /\ last.w.calls > 0

\* the button bits of an INPUT record: the low three bits of data[1]
ButtonBits(ev) == ev.data[2] % 8

\* the three deltas of an INPUT record, as signed bytes
Deltas(ev) == <<AsI8(ev.data[3]), AsI8(ev.data[4]), AsI8(ev.data[5])>>

\* the most recent call was handle_event and it read a record
ReadRecord == last.op = "handle_event" /\ last.read

LedLines == {i \in 1..Len(last.log) :
               last.log[i].msg = "LED output report received with flags"}

----------------------------------------------------------------------------
(* Properties *)

\* C1: once keyboard has read 'q' and the process has ended, a DESTROY
\* record has been written to the channel, and reading 'q' always ends the
\* loop (no event is handled after it).
C1_QuitWritesDestroy ==
    (last.op = "keyboard" /\ last.read /\ last.ch = KeyQ) =>
        /\ pc = "exited"
        /\ channel[UHID_DESTROY].calls >= 1

\* C2: whenever the process has ended after a successful CREATE, whatever
\* the reason, a write of a DESTROY record has been attempted.
C2_DestroyOnEveryExit ==
    (pc = "exited" /\ channel[UHID_LEGACY_CREATE].full >= 1) =>
        channel[UHID_DESTROY].calls >= 1

\* C3: CREATE is never written twice; while main is past the create call
\* exactly one CREATE has been written and that write succeeded; and an
\* INPUT write is only ever made after that one successful CREATE write.
C3_CreateOnceBeforeInput ==
    /\ channel[UHID_LEGACY_CREATE].calls <= 1
    /\ Running =>
         /\ channel[UHID_LEGACY_CREATE].calls = 1
         /\ channel[UHID_LEGACY_CREATE].full = 1
    /\ channel[UHID_LEGACY_INPUT].calls > 0 =>
         /\ channel[UHID_LEGACY_CREATE].calls = 1
         /\ channel[UHID_LEGACY_CREATE].full = 1

C3_Witness ==
    /\ channel[UHID_LEGACY_INPUT].full >= 2
    /\ channel[UHID_LEGACY_CREATE].full = 1
    /\ pc = "wait"

\* C4: every INPUT record written has bit 0, 1, 2 of data[1] equal to the
\* parity of the number of presses of key '1', '2', '3' read so far.
C4_ButtonBitsArePressParity ==
    WroteInput =>
        /\ Bit(last.ev.data[2], 1) <=> (presses[1] = 1)
        /\ Bit(last.ev.data[2], 2) <=> (presses[2] = 1)
        /\ Bit(last.ev.data[2], 4) <=> (presses[3] = 1)

\* C5: in every reachable device state, toggling a button twice gives the
\* state back; and when the same toggle key is handled twice in a row the
\* device state is the one before the first of the two, and the button bits
\* of the record written for the second equal those of a record encoded
\* from the state before the first.
C5_ToggleTwiceRestores ==
    /\ toggle_btn1(toggle_btn1(device_state)) = device_state
    /\ toggle_btn2(toggle_btn2(device_state)) = device_state
    /\ toggle_btn3(toggle_btn3(device_state)) = device_state
    /\ (WroteInput /\ last.ch \in ToggleKeys /\ last.prevCh = last.ch) =>
         /\ device_state = last.prePrev
         /\ ButtonBits(last.ev) = ButtonBits(send_event(from_state(last.prePrev)))

C5_Witness ==
    /\ WroteInput
    /\ last.ch = Key1
    /\ last.prevCh = Key1
    /\ last.prePrev.btn2_down
    /\ device_state = last.prePrev
    /\ last.pre # last.prePrev

\* C6: handling a motion key writes one INPUT record with a non-zero
\* delta, and the INPUT record written for a toggle key has all three
\* deltas zero, whatever key was handled before it.
C6_MotionIsOneShot ==
    /\ (last.op = "keyboard" /\ last.read /\ last.ch \in MotionKeys) =>
         /\ last.w.calls = 1
         /\ last.ev.type = UHID_LEGACY_INPUT
         /\ Deltas(last.ev) # <<0, 0, 0>>
    /\ (WroteInput /\ last.ch \in ToggleKeys) =>
         Deltas(last.ev) = <<0, 0, 0>>

C6_Witness ==
    /\ WroteInput
    /\ last.ch \in ToggleKeys
    /\ last.prevCh \in MotionKeys
    /\ Deltas(last.ev) = <<0, 0, 0>>

\* C7: after handle_event has read a record whose tag is not a known one,
\* the process has not ended, the loop waits again, and the record was
\* logged with its raw tag.
C7_UnknownKindTolerated ==
    (ReadRecord /\ last.ev.type \notin KnownTags) =>
        /\ pc = "wait"
        /\ last.log = <<Line("Invalid event from uhid-dev", last.ev.type)>>

\* C8: after handle_event has read a record of a known kind, the call
\* returned Ok, at least one line was logged and the loop waits again; and
\* handle_event never returns Ok without having logged a line.
C8_KnownKindsLogged ==
    /\ (ReadRecord /\ last.ev.type \in KnownTags) =>
         /\ last.done
         /\ Len(last.log) >= 1
         /\ pc = "wait"
    /\ (last.op = "handle_event" /\ last.done) => Len(last.log) >= 1

C8_Witness ==
    /\ ReadRecord
    /\ last.ev.type = UHID_SET_REPORT_REPLY
    /\ last.log = <<Line("Invalid event from uhid-dev", UHID_SET_REPORT_REPLY)>>
    /\ pc = "wait"

\* C9: for an OUTPUT record read, an LED line is logged exactly when the
\* report type is output-report, the size is 2 and data[0] is 0x02, and the
\* LED line carries data[1].
C9_LedReportIff ==
    (ReadRecord /\ last.ev.type = UHID_OUTPUT) =>
        /\ (LedLines # {}) <=>
             /\ last.ev.rtype = UHID_OUTPUT_REPORT
             /\ last.ev.size = 2
             /\ last.ev.data[1] = 2
        /\ \A i \in LedLines : last.log[i].arg = last.ev.data[2]

C9_Witness ==
    /\ ReadRecord
    /\ last.ev.type = UHID_OUTPUT
    /\ last.ev.rtype = UHID_OUTPUT_REPORT
    /\ last.ev.size = 2
    /\ last.ev.data[1] = 2
    /\ last.log = <<Line("UHID_OUTPUT from uhid-dev", -1),
                    Line("LED output report received with flags", 5)>>

\* C10: a call that writes a record (create, or keyboard for a key that
\* sends) makes exactly one write call; it succeeds exactly when that call
\* transferred UHID_EVENT_SIZE bytes; and after a failed or short write the
\* process has ended, so the record is not written again.
C10_OneWriteFullOrError ==
    /\ (last.op = "create"
          \/ (last.op = "keyboard" /\ last.read
                /\ last.ch \in MotionKeys \cup ToggleKeys)) =>
         last.w.calls = 1
    /\ last.w.calls > 0 =>
         /\ last.w.ok <=> (last.w.ret = UHID_EVENT_SIZE)
         /\ last.done <=> last.w.ok
         /\ ~last.w.ok => pc = "exited"

C10_Witness ==
    /\ WroteInput
    /\ last.w.calls = 1
    /\ last.w.ret = 4
    /\ ~last.w.ok
    /\ pc = "exited"
    /\ channel[UHID_LEGACY_INPUT] = [calls |-> 1, full |-> 0]

\* the ten control characters keyboard acts on
ValidKeys == MotionKeys \cup ToggleKeys \cup {KeyQ}

\* this step is a call of keyboard that read the character c
KeyboardStep(c) ==
    /\ pc = "dispatch"
    /\ token = STDIN
    /\ last'.op = "keyboard"
    /\ last'.read
    /\ last'.ch = c

\* this step is a call of handle_event
HandleEventStep ==
    /\ pc = "dispatch"
    /\ token = UHID_DEVICE
    /\ last'.op = "handle_event"

\* C11: when the read of handle_event fails, handle_event returns Err to
\* main; the process does not end inside handle_event.
C11_ReadFailureReturned ==
    (last.op = "handle_event" /\ ~last.read) => last.ended = "Err"

\* C12: a call of keyboard that reads a character other than the ten
\* control characters logs it as invalid, makes no write call, leaves the
\* channel and the device state as they were, and returns Ok with the loop
\* waiting again.
C12_InvalidCharIgnored ==
    [][\A c \in Chars \ ValidKeys :
         KeyboardStep(c) =>
           /\ last'.log = <<Line("Invalid input", c)>>
           /\ last'.w.calls = 0
           /\ channel' = channel
           /\ device_state' = device_state
           /\ last'.ended = "Ok"
           /\ pc' = "wait"]_vars

C12_Witness ==
    /\ last.op = "keyboard"
    /\ last.read
    /\ last.ch = KeyOther
    /\ last.log = <<Line("Invalid input", KeyOther)>>
    /\ last.pre.btn1_down
    /\ device_state = last.pre
    /\ channel[UHID_LEGACY_INPUT] = [calls |-> 1, full |-> 1]
    /\ pc = "wait"

\* C13: while the loop waits in poll, every record pending on the device
\* channel has a readiness event queued for it, so no unread record stays
\* behind without the loop being woken for it.
C13_NoUnreadRecordWhileWaiting ==
    (pc = "wait" /\ devPending > 0) => devReady

\* the deltas the key table of the program gives each motion key
MotionDelta(c) ==
    CASE c = KeyA -> <<-20, 0, 0>>
      [] c = KeyD -> <<20, 0, 0>>
      [] c = KeyW -> <<0, -20, 0>>
      [] c = KeyS -> <<0, 20, 0>>
      [] c = KeyR -> <<0, 0, 1>>
      [] c = KeyF -> <<0, 0, -1>>

\* C14: a call of keyboard that reads a motion key makes one write call,
\* of an INPUT record whose deltas are those of the key: a/d horizontal
\* -20/+20, w/s vertical -20/+20, r/f wheel +1/-1, the other two zero.
C14_MotionKeyDeltas ==
    (last.op = "keyboard" /\ last.read /\ last.ch \in MotionKeys) =>
        /\ last.w.calls = 1
        /\ last.ev.type = UHID_LEGACY_INPUT
        /\ Deltas(last.ev) = MotionDelta(last.ch)

C14_Witness ==
    /\ WroteInput
    /\ last.ch = KeyW
    /\ last.ev.data[3] = 0
    /\ last.ev.data[4] = 236
    /\ last.ev.data[5] = 0
    /\ last.w.ok

\* the handler main calls for a token
HandlerOf(t) == IF t = STDIN THEN "keyboard" ELSE "handle_event"

\* C15: poll hands over one readiness event at a time, only while the loop
\* waits, consuming the readiness of that source alone; the next call made
\* is the handler of that event's source, and no handler is called except
\* for the event just reported.
C15_OneHandlerPerReportedEvent ==
    [][/\ (pc # "dispatch" /\ pc' = "dispatch") =>
            /\ pc = "wait"
            /\ token' \in {STDIN, UHID_DEVICE}
            /\ token' = STDIN => (stdinReady /\ ~stdinReady' /\ devReady' = devReady)
            /\ token' = UHID_DEVICE => (devReady /\ ~devReady' /\ stdinReady' = stdinReady)
       /\ (pc = "dispatch" /\ pc' = "dispatch") => token' = token
       /\ (pc = "dispatch" /\ pc' # "dispatch") =>
            /\ last'.op = HandlerOf(token)
            /\ pc' \in {"wait", "exited"}
       /\ (last' # last /\ last'.op \in {"keyboard", "handle_event"}) =>
            /\ pc = "dispatch"
            /\ last'.op = HandlerOf(token)]_vars

C15_Witness ==
    /\ pc = "wait"
    /\ last.op = "handle_event"
    /\ last.done
    /\ stdinReady
    /\ stdinPending = 2
    /\ prev.ch = 0

\* C16: a call of a handler changes the pending data of its own source
\* only, by the one byte or the one record it read (by nothing when the
\* read failed).
C16_OneReadPerNotification ==
    [][(pc = "dispatch" /\ pc' # "dispatch") =>
         LET n == IF last'.read THEN 1 ELSE 0 IN
           IF token = STDIN
           THEN /\ stdinPending' = stdinPending - n
                /\ devPending' = devPending
           ELSE /\ devPending' = devPending - n
                /\ stdinPending' = stdinPending]_vars

C16_Witness ==
    /\ last.op = "handle_event"
    /\ last.read
    /\ devPending = 1
    /\ ~devReady
    /\ pc = "wait"

\* C17: the device state changes only in a call of keyboard that read
\* '1', '2' or '3'; a call of handle_event changes neither the device state
\* nor the channel and makes no write call.
C17_StateChangedOnlyByToggleKeys ==
    [][/\ device_state' # device_state =>
            \E c \in ToggleKeys : KeyboardStep(c)
       /\ \A c \in Chars \ ToggleKeys :
            KeyboardStep(c) => device_state' = device_state
       /\ HandleEventStep =>
            /\ device_state' = device_state
            /\ channel' = channel
            /\ last'.w.calls = 0]_vars

C17_Witness ==
    /\ last.op = "handle_event"
    /\ last.read
    /\ device_state.btn1_down
    /\ device_state.btn3_down
    /\ prev.ch \in MotionKeys
    /\ channel[UHID_LEGACY_INPUT].full = MaxCount

\* C18: every INPUT record written has size 5, data[0] = 0x01, the upper
\* five bits of data[1] zero, and each delta byte, read as a signed byte,
\* within -127..127.
C18_InputRecordShape ==
    WroteInput =>
        /\ last.ev.type = UHID_LEGACY_INPUT
        /\ last.ev.size = 5
        /\ last.ev.data[1] = 1
        /\ last.ev.data[2] \in 0..7
        /\ \A i \in 1..3 : Deltas(last.ev)[i] \in -127..127

C18_Witness ==
    /\ WroteInput
    /\ last.ch = KeyA
    /\ last.ev.data[2] = 7
    /\ last.ev.data[3] = 236
    /\ Deltas(last.ev) = <<-20, 0, 0>>

\* C19: when open fails the process ends at once, and when the CREATE write
\* fails or is short the process ends with create_failed; in both cases the
\* loop was never entered: no INPUT write was made, no character was read
\* and no handler was called.
C19_SetupFailureIsFatal ==
    /\ (last.op = "create" /\ ~last.w.ok) =>
         /\ pc = "exited"
         /\ exit = "create_failed"
    /\ exit \in {"open_failed", "create_failed"} =>
         /\ pc = "exited"
         /\ channel[UHID_LEGACY_INPUT].calls = 0
         /\ prev.ch = 0
         /\ last.op \in {"none", "create"}
         /\ exit = "open_failed" => channel[UHID_LEGACY_CREATE].calls = 0

C19_Witness ==
    /\ exit = "create_failed"
    /\ last.op = "create"
    /\ last.w.ret = 4
    /\ stdinPending = MaxPending
    /\ stdinReady

====
